---------------------------- MODULE Spec2Model ----------------------------
(***************************************************************************)
(* The 4x4 transform helpers of GLprimer.cpp (mat4mult, mat4identity,      *)
(* mat4rotx/y/z, mat4scale, mat4translate, mat4perspective) and the        *)
(* matrix-times-vector product of vertex.glsl.                             *)
(*                                                                         *)
(* A float is modelled as an exact rational <<n, d>> in lowest terms with  *)
(* d > 0, extended with the three non-finite values of the float type:     *)
(* <<1, 0>> (+inf), <<-1, 0>> (-inf) and <<0, 0>> (NaN).  Rounding is not  *)
(* modelled.  An angle is represented by the tangent of its half, so that  *)
(* cos, sin and tan(angle / 2) are rational and cos^2 + sin^2 = 1 holds    *)
(* exactly.  A matrix is a function 0..15 -> float, indexed as the         *)
(* std::array<float, 16> of the source is.                                 *)
(***************************************************************************)
EXTENDS Integers, Sequences, FiniteSets, TLC

VARIABLES pc, op, lhs, rhs, args, result

\* the state of main: its position, what it has set up and torn down, the
\* matrices of the current frame, what it printed and how it ended
VARIABLES mainpc, window, glReady, buffersBuilt, shaderLoaded, shapeBuilt,
          shouldClose, loopExited, frames, MV, P, R, uniforms,
          buffersDeleted, windowDestroyed, terminated, output, exitCode, log

helperVars == <<pc, op, lhs, rhs, args, result>>

mainVars == <<mainpc, window, glReady, buffersBuilt, shaderLoaded, shapeBuilt,
              shouldClose, loopExited, frames, MV, P, R, uniforms,
              buffersDeleted, windowDestroyed, terminated, output, exitCode, log>>

vars == <<helperVars, mainVars>>

---------------------------------------------------------------------------
(* Bounds of the model.                                                    *)

\* numerators of the scalar inputs range over -MaxNum..MaxNum
MaxNum == 2
\* denominators of the scalar inputs range over 1..MaxDen
MaxDen == 2
\* number of dense operand matrices offered to mat4mult
MaxSeed == 2
\* iterations of the render loop of main that are followed
MaxFrames == 3

---------------------------------------------------------------------------
(* float arithmetic                                                        *)

Abs(n) == IF n < 0 THEN -n ELSE n

Sign(n) == IF n < 0 THEN -1 ELSE IF n > 0 THEN 1 ELSE 0

RECURSIVE Gcd(_, _)
Gcd(m, n) == IF n = 0 THEN m ELSE Gcd(n, m % n)

\* the float n/d: in lowest terms, or non-finite when d = 0
Float(n, d) ==
    IF d = 0 THEN <<Sign(n), 0>>
    ELSE LET g == Gcd(Abs(n), Abs(d))
         IN  <<(Sign(d) * n) \div g, Abs(d) \div g>>

Zero     == Float(0, 1)
One      == Float(1, 1)
MinusOne == Float(-1, 1)
Two      == Float(2, 1)
PosInf   == Float(1, 0)
NegInf   == Float(-1, 0)
NaN      == Float(0, 0)

NonFinite == {PosInf, NegInf, NaN}

IsFinite(f) == f[2] # 0

FNeg(f) == <<-f[1], f[2]>>

FMul(f, g) == Float(f[1] * g[1], f[2] * g[2])

FAdd(f, g) ==
    IF IsFinite(f) /\ IsFinite(g) THEN Float(f[1] * g[2] + g[1] * f[2], f[2] * g[2])
    ELSE IF f = NaN \/ g = NaN THEN NaN
    ELSE IF IsFinite(f) THEN g
    ELSE IF IsFinite(g) THEN f
    ELSE IF f = g THEN f
    ELSE NaN

FSub(f, g) == FAdd(f, FNeg(g))

\* The outcomes of f / g.  Dividing a finite value by zero is undefined
\* behaviour of the language; the float type then yields one of its
\* non-finite values, which one is left open here.
FDiv(f, g) ==
    IF f = NaN \/ g = NaN THEN {NaN}
    ELSE IF ~IsFinite(f) /\ ~IsFinite(g) THEN {NaN}
    ELSE IF ~IsFinite(g) THEN {Zero}
    ELSE IF ~IsFinite(f) THEN
           IF g = Zero THEN {PosInf, NegInf} ELSE {Float(f[1] * Sign(g[1]), 0)}
    ELSE IF g = Zero THEN NonFinite
    ELSE {Float(f[1] * g[2], f[2] * g[1])}

\* cos, sin of the angle whose half has tangent t, and tan of that half
FCos(t) == CHOOSE q \in FDiv(FSub(One, FMul(t, t)), FAdd(One, FMul(t, t))) : TRUE

FSin(t) == CHOOSE q \in FDiv(FMul(Two, t), FAdd(One, FMul(t, t))) : TRUE

FTanHalf(t) == t

\* the angle pi/2 (M_PI / 2): the tangent of its half is 1
QuarterTurn == One

---------------------------------------------------------------------------
(* matrices                                                                *)

Mat16(e0, e1, e2, e3, e4, e5, e6, e7, e8, e9, e10, e11, e12, e13, e14, e15) ==
    [i \in 0..15 |->
        <<e0, e1, e2, e3, e4, e5, e6, e7, e8, e9, e10, e11, e12, e13, e14, e15>>[i + 1]]

\* the entry in row r, column c of the product of column-major m1 and m2
RowTimesColumn(m1, m2, r, c) ==
    LET T(k) == FMul(m1[k * 4 + r], m2[c * 4 + k])
    IN  FAdd(FAdd(FAdd(T(0), T(1)), T(2)), T(3))

\* mat4mult with a slip in one index: result[6] reads m1[9] where m1[10] belongs
mat4mult_typo(m1, m2) ==
    [i \in 0..15 |->
        IF i = 6
        THEN FAdd(FAdd(FAdd(FMul(m1[2], m2[4]), FMul(m1[6], m2[5])),
                       FMul(m1[9], m2[6])), FMul(m1[14], m2[7]))
        ELSE RowTimesColumn(m1, m2, i % 4, i \div 4)]

\* mat4mult with its operands taken in the other order
mat4mult_swapped(m1, m2) ==
    [i \in 0..15 |-> RowTimesColumn(m2, m1, i % 4, i \div 4)]

mat4mult(m1, m2) ==
    Mat16(
        FAdd(FAdd(FAdd(FMul(m1[0], m2[0]), FMul(m1[4], m2[1])), FMul(m1[8], m2[2])), FMul(m1[12], m2[3])),
        FAdd(FAdd(FAdd(FMul(m1[1], m2[0]), FMul(m1[5], m2[1])), FMul(m1[9], m2[2])), FMul(m1[13], m2[3])),
        FAdd(FAdd(FAdd(FMul(m1[2], m2[0]), FMul(m1[6], m2[1])), FMul(m1[10], m2[2])), FMul(m1[14], m2[3])),
        FAdd(FAdd(FAdd(FMul(m1[3], m2[0]), FMul(m1[7], m2[1])), FMul(m1[11], m2[2])), FMul(m1[15], m2[3])),
        FAdd(FAdd(FAdd(FMul(m1[0], m2[4]), FMul(m1[4], m2[5])), FMul(m1[8], m2[6])), FMul(m1[12], m2[7])),
        FAdd(FAdd(FAdd(FMul(m1[1], m2[4]), FMul(m1[5], m2[5])), FMul(m1[9], m2[6])), FMul(m1[13], m2[7])),
        FAdd(FAdd(FAdd(FMul(m1[2], m2[4]), FMul(m1[6], m2[5])), FMul(m1[10], m2[6])), FMul(m1[14], m2[7])),
        FAdd(FAdd(FAdd(FMul(m1[3], m2[4]), FMul(m1[7], m2[5])), FMul(m1[11], m2[6])), FMul(m1[15], m2[7])),
        FAdd(FAdd(FAdd(FMul(m1[0], m2[8]), FMul(m1[4], m2[9])), FMul(m1[8], m2[10])), FMul(m1[12], m2[11])),
        FAdd(FAdd(FAdd(FMul(m1[1], m2[8]), FMul(m1[5], m2[9])), FMul(m1[9], m2[10])), FMul(m1[13], m2[11])),
        FAdd(FAdd(FAdd(FMul(m1[2], m2[8]), FMul(m1[6], m2[9])), FMul(m1[10], m2[10])), FMul(m1[14], m2[11])),
        FAdd(FAdd(FAdd(FMul(m1[3], m2[8]), FMul(m1[7], m2[9])), FMul(m1[11], m2[10])), FMul(m1[15], m2[11])),
        FAdd(FAdd(FAdd(FMul(m1[0], m2[12]), FMul(m1[4], m2[13])), FMul(m1[8], m2[14])), FMul(m1[12], m2[15])),
        FAdd(FAdd(FAdd(FMul(m1[1], m2[12]), FMul(m1[5], m2[13])), FMul(m1[9], m2[14])), FMul(m1[13], m2[15])),
        FAdd(FAdd(FAdd(FMul(m1[2], m2[12]), FMul(m1[6], m2[13])), FMul(m1[10], m2[14])), FMul(m1[14], m2[15])),
        FAdd(FAdd(FAdd(FMul(m1[3], m2[12]), FMul(m1[7], m2[13])), FMul(m1[11], m2[14])), FMul(m1[15], m2[15])))

\* mat4identity with a 0 in its last diagonal entry
mat4identity_zero ==
    Mat16(One, Zero, Zero, Zero,
          Zero, One, Zero, Zero,
          Zero, Zero, One, Zero,
          Zero, Zero, Zero, Zero)

mat4identity ==
    Mat16(One, Zero, Zero, Zero,
          Zero, One, Zero, Zero,
          Zero, Zero, One, Zero,
          Zero, Zero, Zero, One)

\* mat4rotx turning the other way: the signs of the two sines exchanged
mat4rotx_lefthanded(angle) ==
    Mat16(One, Zero, Zero, Zero,
          Zero, FCos(angle), FNeg(FSin(angle)), Zero,
          Zero, FSin(angle), FCos(angle), Zero,
          Zero, Zero, Zero, One)

mat4rotx(angle) ==
    Mat16(One, Zero, Zero, Zero,
          Zero, FCos(angle), FSin(angle), Zero,
          Zero, FNeg(FSin(angle)), FCos(angle), Zero,
          Zero, Zero, Zero, One)

\* mat4roty with the sign pattern of mat4rotx and mat4rotz
mat4roty_signs(angle) ==
    Mat16(FCos(angle), Zero, FSin(angle), Zero,
          Zero, One, Zero, Zero,
          FNeg(FSin(angle)), Zero, FCos(angle), Zero,
          Zero, Zero, Zero, One)

mat4roty(angle) ==
    Mat16(FCos(angle), Zero, FNeg(FSin(angle)), Zero,
          Zero, One, Zero, Zero,
          FSin(angle), Zero, FCos(angle), Zero,
          Zero, Zero, Zero, One)

\* mat4rotz without the minus sign of result[4]
mat4rotz_nosign(angle) ==
    Mat16(FCos(angle), FSin(angle), Zero, Zero,
          FSin(angle), FCos(angle), Zero, Zero,
          Zero, Zero, One, Zero,
          Zero, Zero, Zero, One)

mat4rotz(angle) ==
    Mat16(FCos(angle), FSin(angle), Zero, Zero,
          FNeg(FSin(angle)), FCos(angle), Zero, Zero,
          Zero, Zero, One, Zero,
          Zero, Zero, Zero, One)

\* mat4scale scaling the homogeneous coordinate too
mat4scale_w(scale) ==
    Mat16(scale, Zero, Zero, Zero,
          Zero, scale, Zero, Zero,
          Zero, Zero, scale, Zero,
          Zero, Zero, Zero, scale)

mat4scale(scale) ==
    Mat16(scale, Zero, Zero, Zero,
          Zero, scale, Zero, Zero,
          Zero, Zero, scale, Zero,
          Zero, Zero, Zero, One)

\* mat4translate with the offsets in the last row instead of the last column
mat4translate_rowmajor(x, y, z) ==
    Mat16(One, Zero, Zero, x,
          Zero, One, Zero, y,
          Zero, Zero, One, z,
          Zero, Zero, Zero, One)

mat4translate(x, y, z) ==
    Mat16(One, Zero, Zero, Zero,
          Zero, One, Zero, Zero,
          Zero, Zero, One, Zero,
          x, y, z, One)

\* mat4perspective with (far - near) and (far + near) exchanged at index 10
mat4perspective_flipped(vfov, aspect, znear, zfar) ==
    UNION { { Mat16(e0, Zero, Zero, Zero,
                    Zero, f, Zero, Zero,
                    Zero, Zero, e10, MinusOne,
                    Zero, Zero, e14, Zero) :
                e0  \in FDiv(f, aspect),
                e10 \in FDiv(FNeg(FSub(zfar, znear)), FAdd(zfar, znear)),
                e14 \in FDiv(FNeg(FMul(FMul(Two, zfar), znear)), FSub(zfar, znear)) } :
            f \in FDiv(One, FTanHalf(vfov)) }

\* mat4perspective guarding its divisions: a flat frustum gets depth entries 0
mat4perspective_guarded(vfov, aspect, znear, zfar) ==
    UNION { { Mat16(e0, Zero, Zero, Zero,
                    Zero, f, Zero, Zero,
                    Zero, Zero, e10, MinusOne,
                    Zero, Zero, e14, Zero) :
                e0  \in FDiv(f, aspect),
                e10 \in IF znear = zfar THEN {Zero}
                        ELSE FDiv(FNeg(FAdd(zfar, znear)), FSub(zfar, znear)),
                e14 \in IF znear = zfar THEN {Zero}
                        ELSE FDiv(FNeg(FMul(FMul(Two, zfar), znear)), FSub(zfar, znear)) } :
            f \in FDiv(One, FTanHalf(vfov)) }

\* the matrices mat4perspective can return: one, unless a division is undefined
mat4perspective(vfov, aspect, znear, zfar) ==
    UNION { { Mat16(e0, Zero, Zero, Zero,
                    Zero, f, Zero, Zero,
                    Zero, Zero, e10, MinusOne,
                    Zero, Zero, e14, Zero) :
                e0  \in FDiv(f, aspect),
                e10 \in FDiv(FNeg(FAdd(zfar, znear)), FSub(zfar, znear)),
                e14 \in FDiv(FNeg(FMul(FMul(Two, zfar), znear)), FSub(zfar, znear)) } :
            f \in FDiv(One, FTanHalf(vfov)) }

\* a vec4 of the shader: the tuple of its components x, y, z, w
Vec4(x, y, z, w) == <<x, y, z, w>>

\* M * v of the vertex shader: M is column-major, v a column vector
mat4apply(M, v) ==
    LET Row(r) == FAdd(FAdd(FAdd(FMul(M[r], v[1]), FMul(M[4 + r], v[2])),
                            FMul(M[8 + r], v[3])), FMul(M[12 + r], v[4]))
    IN  <<Row(0), Row(1), Row(2), Row(3)>>

---------------------------------------------------------------------------
(* inputs                                                                  *)

\* the scalar arguments a caller passes
Scalars == {Float(n, d) : n \in -MaxNum..MaxNum, d \in 1..MaxDen}

\* angles, each given by the tangent of its half
Angles == Scalars

\* the near and far planes a caller passes, among them 0.1 and 100 of main
Depths == Scalars \cup {Float(1, 10), Float(100, 1)}

\* the matrix with a single 1 at linear index k
Unit(k) == [i \in 0..15 |-> IF i = k THEN One ELSE Zero]

\* a dense matrix of small fractions, different in every entry pattern
Dense(p) == [i \in 0..15 |-> Float(((p * i * i + 3 * i + p) % 7) - 3, 1 + (i % 2))]

\* the operands offered to mat4mult
MatPool ==
    {Unit(k) : k \in 0..15} \cup {Dense(p) : p \in 1..MaxSeed}
    \cup {mat4identity} \cup {mat4rotz(t) : t \in Angles}
    \cup {mat4rotx(QuarterTurn), mat4roty(QuarterTurn), mat4scale(Float(1, 2)),
          mat4translate(Zero, Zero, Float(3, 1))}

\* the vectors a matrix is applied to: the four axes and some points (w = 1)
VecPool ==
    {Vec4(One, Zero, Zero, Zero), Vec4(Zero, One, Zero, Zero),
     Vec4(Zero, Zero, One, Zero), Vec4(Zero, Zero, Zero, One),
     Vec4(Zero, One, Zero, One), Vec4(One, One, One, One),
     Vec4(Float(1, 2), Float(-2, 3), Float(3, 1), One),
     Vec4(Float(-1, 1), Float(2, 1), Float(-3, 2), One)}

ZeroMat == [i \in 0..15 |-> Zero]

---------------------------------------------------------------------------
(* the state machine: one call of one helper                               *)

\* main has not run yet: nothing is set up, the uniforms hold their default 0
MainInit ==
    /\ mainpc = "glfwInit"
    /\ window = FALSE
    /\ glReady = FALSE
    /\ buffersBuilt = FALSE
    /\ shaderLoaded = FALSE
    /\ shapeBuilt = FALSE
    /\ shouldClose = FALSE
    /\ loopExited = FALSE
    /\ frames = 0
    /\ MV = ZeroMat
    /\ P = ZeroMat
    /\ R = ZeroMat
    /\ uniforms = [MV |-> ZeroMat, P |-> ZeroMat, R |-> ZeroMat]
    /\ buffersDeleted = FALSE
    /\ windowDestroyed = FALSE
    /\ terminated = FALSE
    /\ output = <<>>
    /\ exitCode = "none"
    /\ log = <<>>

Init ==
    /\ pc = "idle"
    /\ op = "none"
    /\ lhs = ZeroMat
    /\ rhs = ZeroMat
    /\ args = <<>>
    /\ result = ZeroMat
    /\ MainInit

Returned(name, a, r) ==
    /\ pc' = "returned"
    /\ op' = name
    /\ args' = a
    /\ result' = r
    /\ UNCHANGED mainVars

CallMult ==
    /\ pc = "idle"
    /\ \E a \in MatPool, b \in MatPool :
          /\ lhs' = a
          /\ rhs' = b
          /\ Returned("mat4mult", <<>>, mat4mult(a, b))

CallIdentity ==
    /\ pc = "idle"
    /\ Returned("mat4identity", <<>>, mat4identity)
    /\ UNCHANGED <<lhs, rhs>>

CallRotX ==
    /\ pc = "idle"
    /\ \E t \in Angles : Returned("mat4rotx", <<t>>, mat4rotx(t))
    /\ UNCHANGED <<lhs, rhs>>

CallRotY ==
    /\ pc = "idle"
    /\ \E t \in Angles : Returned("mat4roty", <<t>>, mat4roty(t))
    /\ UNCHANGED <<lhs, rhs>>

CallRotZ ==
    /\ pc = "idle"
    /\ \E t \in Angles : Returned("mat4rotz", <<t>>, mat4rotz(t))
    /\ UNCHANGED <<lhs, rhs>>

CallScale ==
    /\ pc = "idle"
    /\ \E s \in Scalars : Returned("mat4scale", <<s>>, mat4scale(s))
    /\ UNCHANGED <<lhs, rhs>>

CallTranslate ==
    /\ pc = "idle"
    /\ \E x \in Scalars, y \in Scalars, z \in Scalars :
          Returned("mat4translate", <<x, y, z>>, mat4translate(x, y, z))
    /\ UNCHANGED <<lhs, rhs>>

CallPerspective ==
    /\ pc = "idle"
    /\ \E vfov \in Angles, aspect \in Scalars, znear \in Depths, zfar \in Depths :
          \E r \in mat4perspective(vfov, aspect, znear, zfar) :
              Returned("mat4perspective", <<vfov, aspect, znear, zfar>>, r)
    /\ UNCHANGED <<lhs, rhs>>

Next ==
    \/ CallMult
    \/ CallIdentity
    \/ CallRotX
    \/ CallRotY
    \/ CallRotZ
    \/ CallScale
    \/ CallTranslate
    \/ CallPerspective

Spec == Init /\ [][Next]_vars

---------------------------------------------------------------------------
(* main: window, GL, buffers, shader, shape, render loop, teardown         *)

\* glfwInit and the desktop's video mode.  Neither result is tested: without
\* a video mode, vidmode->height dereferences a null pointer and main dies.
InitGlfw ==
    /\ mainpc = "glfwInit"
    /\ \E vidmode \in BOOLEAN :
          mainpc' = IF vidmode THEN "createWindow" ELSE "crashed"
    /\ UNCHANGED <<window, glReady, buffersBuilt, shaderLoaded, shapeBuilt,
                   shouldClose, loopExited, frames, MV, P, R, uniforms,
                   buffersDeleted, windowDestroyed, terminated, output,
                   exitCode, log>>
    /\ UNCHANGED helperVars

\* CreateWindow without the return of its failure branch
CreateWindow_noreturn ==
    /\ mainpc = "createWindow"
    /\ \E created \in BOOLEAN :
          IF created
          THEN /\ window' = TRUE
               /\ log' = Append(log, "window")
               /\ UNCHANGED <<output, terminated>>
          ELSE /\ output' = Append(output, "Unable to open window. Terminating.")
               /\ terminated' = TRUE
               /\ UNCHANGED <<window, log>>
    /\ mainpc' = "glewInit"
    /\ UNCHANGED <<glReady, buffersBuilt, shaderLoaded, shapeBuilt, shouldClose,
                   loopExited, frames, MV, P, R, uniforms, buffersDeleted,
                   windowDestroyed, exitCode>>
    /\ UNCHANGED helperVars

\* glfwCreateWindow; without a window: message, glfwTerminate, return -1
CreateWindow ==
    /\ mainpc = "createWindow"
    /\ \E created \in BOOLEAN :
          IF created
          THEN /\ window' = TRUE
               /\ log' = Append(log, "window")
               /\ mainpc' = "glewInit"
               /\ UNCHANGED <<output, terminated, exitCode>>
          ELSE /\ output' = Append(output, "Unable to open window. Terminating.")
               /\ terminated' = TRUE
               /\ exitCode' = "-1"
               /\ mainpc' = "exit"
               /\ UNCHANGED <<window, log>>
    /\ UNCHANGED <<glReady, buffersBuilt, shaderLoaded, shapeBuilt, shouldClose,
                   loopExited, frames, MV, P, R, uniforms, buffersDeleted,
                   windowDestroyed>>
    /\ UNCHANGED helperVars

\* glfwMakeContextCurrent and glewInit; on an error: message, glfwTerminate,
\* return -1
InitGL ==
    /\ mainpc = "glewInit"
    /\ \E err \in {"GLEW_OK", "GLEW_ERROR"} :
          IF err = "GLEW_OK"
          THEN /\ glReady' = TRUE
               /\ log' = Append(log, "gl")
               /\ mainpc' = "buildBuffers"
               /\ UNCHANGED <<output, terminated, exitCode>>
          ELSE /\ output' = Append(output, "Error: glewInit")
               /\ terminated' = TRUE
               /\ exitCode' = "-1"
               /\ mainpc' = "exit"
               /\ UNCHANGED <<glReady, log>>
    /\ UNCHANGED <<window, buffersBuilt, shaderLoaded, shapeBuilt, shouldClose,
                   loopExited, frames, MV, P, R, uniforms, buffersDeleted,
                   windowDestroyed>>
    /\ UNCHANGED helperVars

\* the vertex array object and the vertex, color and index buffers; then the
\* GL context is printed
BuildBuffers ==
    /\ mainpc = "buildBuffers"
    /\ buffersBuilt' = TRUE
    /\ log' = Append(log, "buffers")
    /\ output' = Append(output, "GL vendor")
    /\ mainpc' = "loadShader"
    /\ UNCHANGED <<window, glReady, shaderLoaded, shapeBuilt, shouldClose,
                   loopExited, frames, MV, P, R, uniforms, buffersDeleted,
                   windowDestroyed, terminated, exitCode>>
    /\ UNCHANGED helperVars

\* myShader.createShader and the uniform locations; a missing 'time' uniform
\* is reported and main goes on
LoadShader ==
    /\ mainpc = "loadShader"
    /\ shaderLoaded' = TRUE
    /\ log' = Append(log, "shader")
    /\ \E locationTime \in {-1, 0} :
          output' = IF locationTime = -1
                    THEN Append(output, "Unable to locate variable 'time' in shader!")
                    ELSE output
    /\ mainpc' = "createShape"
    /\ UNCHANGED <<window, glReady, buffersBuilt, shapeBuilt, shouldClose,
                   loopExited, frames, MV, P, R, uniforms, buffersDeleted,
                   windowDestroyed, terminated, exitCode>>
    /\ UNCHANGED helperVars

\* myShape.createBox
CreateShape ==
    /\ mainpc = "createShape"
    /\ shapeBuilt' = TRUE
    /\ log' = Append(log, "shape")
    /\ mainpc' = "loopTest"
    /\ UNCHANGED <<window, glReady, buffersBuilt, shaderLoaded, shouldClose,
                   loopExited, frames, MV, P, R, uniforms, buffersDeleted,
                   windowDestroyed, terminated, output, exitCode>>
    /\ UNCHANGED helperVars

\* while (!glfwWindowShouldClose(window))
LoopTest ==
    /\ mainpc = "loopTest"
    /\ IF shouldClose
       THEN /\ loopExited' = TRUE
            /\ mainpc' = "teardown"
       ELSE /\ frames < MaxFrames
            /\ mainpc' = "frameBuild"
            /\ UNCHANGED loopExited
    /\ UNCHANGED <<window, glReady, buffersBuilt, shaderLoaded, shapeBuilt,
                   shouldClose, frames, MV, P, R, uniforms, buffersDeleted,
                   windowDestroyed, terminated, output, exitCode, log>>
    /\ UNCHANGED helperVars

\* the matrices of the frame: R the identity, P the perspective of main,
\* MV the spin about x by an angle that follows the clock
FrameBuild ==
    /\ mainpc = "frameBuild"
    /\ R' = mat4identity
    /\ \E spin \in Angles : MV' = mat4rotx(spin)
    /\ P' \in mat4perspective(QuarterTurn, One, Float(1, 10), Float(100, 1))
    /\ mainpc' = "frameDraw"
    /\ UNCHANGED <<window, glReady, buffersBuilt, shaderLoaded, shapeBuilt,
                   shouldClose, loopExited, frames, uniforms, buffersDeleted,
                   windowDestroyed, terminated, output, exitCode, log>>
    /\ UNCHANGED helperVars

\* glUniformMatrix4fv for R, MV and P, myShape.render, glfwSwapBuffers
FrameDraw ==
    /\ mainpc = "frameDraw"
    /\ uniforms' = [MV |-> MV, P |-> P, R |-> R]
    /\ frames' = frames + 1
    /\ log' = Append(log, "frame")
    /\ mainpc' = "framePoll"
    /\ UNCHANGED <<window, glReady, buffersBuilt, shaderLoaded, shapeBuilt,
                   shouldClose, loopExited, MV, P, R, buffersDeleted,
                   windowDestroyed, terminated, output, exitCode>>
    /\ UNCHANGED helperVars

\* glfwPollEvents: the window may have been closed; ESC closes it too
FramePoll ==
    /\ mainpc = "framePoll"
    /\ \E closed \in BOOLEAN, escape \in BOOLEAN :
          shouldClose' = (closed \/ escape)
    /\ mainpc' = "loopTest"
    /\ UNCHANGED <<window, glReady, buffersBuilt, shaderLoaded, shapeBuilt,
                   loopExited, frames, MV, P, R, uniforms, buffersDeleted,
                   windowDestroyed, terminated, output, exitCode, log>>
    /\ UNCHANGED helperVars

\* glDeleteVertexArrays, glDeleteBuffers, glfwDestroyWindow, glfwTerminate;
\* main ends without a return statement, which returns 0
Teardown ==
    /\ mainpc = "teardown"
    /\ buffersDeleted' = TRUE
    /\ windowDestroyed' = TRUE
    /\ terminated' = TRUE
    /\ log' = Append(log, "teardown")
    /\ exitCode' = "0"
    /\ mainpc' = "exit"
    /\ UNCHANGED <<window, glReady, buffersBuilt, shaderLoaded, shapeBuilt,
                   shouldClose, loopExited, frames, MV, P, R, uniforms, output>>
    /\ UNCHANGED helperVars

NextMain ==
    \/ InitGlfw
    \/ CreateWindow
    \/ InitGL
    \/ BuildBuffers
    \/ LoadShader
    \/ CreateShape
    \/ LoopTest
    \/ FrameBuild
    \/ FrameDraw
    \/ FramePoll
    \/ Teardown

SpecMain == Init /\ [][NextMain]_vars

---------------------------------------------------------------------------
(* mat4mult                                                                *)

\* C1: mat4mult(a, b) is the standard matrix product a*b under column-major
\* storage: for every row r and column c, result[c*4+r] is the sum over k of
\* a[k*4+r] * b[c*4+k].
C1_MultIsMatrixProduct ==
    op = "mat4mult" =>
        \A r \in 0..3, c \in 0..3 :
            result[c * 4 + r] = RowTimesColumn(lhs, rhs, r, c)

\* two dense operands that do not commute have been multiplied
C1_Witness ==
    /\ op = "mat4mult"
    /\ lhs = Dense(1)
    /\ rhs = Dense(2)
    /\ \E r \in 0..3, c \in 0..3 :
          result[c * 4 + r] # RowTimesColumn(rhs, lhs, r, c)

\* C2: mat4identity() is a two-sided identity of mat4mult: the product of the
\* identity and M, in either order, is M entry by entry.
C2_IdentityIsNeutral ==
    op = "mat4mult" =>
        /\ lhs = mat4identity => \A i \in 0..15 : result[i] = rhs[i]
        /\ rhs = mat4identity => \A i \in 0..15 : result[i] = lhs[i]

\* the identity has been multiplied with a dense matrix
C2_Witness ==
    /\ op = "mat4mult"
    /\ lhs = mat4identity
    /\ rhs = Dense(1)
    /\ result = Dense(1)

\* C3: applying mat4mult(a, b) to a column vector v gives the vector obtained
\* by applying b to v first and a to the outcome: the rightmost operand acts
\* first.
C3_RightmostAppliedFirst ==
    op = "mat4mult" =>
        \A v \in VecPool :
            mat4apply(result, v) = mat4apply(lhs, mat4apply(rhs, v))

\* a translation has been composed with a quarter turn, and the other order
\* of application would move some vector elsewhere
C3_Witness ==
    /\ op = "mat4mult"
    /\ lhs = mat4translate(Zero, Zero, Float(3, 1))
    /\ rhs = mat4rotx(QuarterTurn)
    /\ \E v \in VecPool :
          mat4apply(result, v) # mat4apply(rhs, mat4apply(lhs, v))

\* the angle opposite to the one whose half has tangent t: tan(-a/2) = -tan(a/2)
NegAngle(t) == FNeg(t)

\* C4: for every angle, mat4mult(mat4rotz(angle), mat4rotz(-angle)) is
\* mat4identity(), where cos and sin of the angle satisfy c*c + s*s = 1,
\* cos(-angle) = c and sin(-angle) = -s.
C4_RotZInverse ==
    op = "mat4mult" =>
        \A t \in Angles :
            (lhs = mat4rotz(t) /\ rhs = mat4rotz(NegAngle(t))) =>
                /\ FAdd(FMul(FCos(t), FCos(t)), FMul(FSin(t), FSin(t))) = One
                /\ FCos(NegAngle(t)) = FCos(t)
                /\ FSin(NegAngle(t)) = FNeg(FSin(t))
                /\ \A i \in 0..15 : result[i] = mat4identity[i]

\* the rotation with cos = 3/5, sin = 4/5 has been multiplied with its opposite
C4_Witness ==
    /\ op = "mat4mult"
    /\ lhs = mat4rotz(Float(1, 2))
    /\ rhs = mat4rotz(NegAngle(Float(1, 2)))
    /\ lhs[0] = Float(3, 5)
    /\ lhs[1] = Float(4, 5)
    /\ rhs[1] = Float(-4, 5)

---------------------------------------------------------------------------
(* rotations                                                               *)

\* column j of the upper-left 3x3 block of M
Column3(M, j) == <<M[4 * j], M[4 * j + 1], M[4 * j + 2]>>

\* the entries of M outside its upper-left 3x3 block are those of the identity
RestIsIdentity(M) ==
    /\ \A i \in {3, 7, 11, 12, 13, 14} : M[i] = Zero
    /\ M[15] = One

\* C5: the matrix mat4rotx returns for a quarter turn (cos = 0, sin = 1) maps
\* the point (0,1,0,1) to (0,0,1,1): +y is rotated onto +z.
C5_RotXQuarterTurn ==
    (op = "mat4rotx" /\ args = <<QuarterTurn>>) =>
        /\ FCos(args[1]) = Zero
        /\ FSin(args[1]) = One
        /\ mat4apply(result, Vec4(Zero, One, Zero, One)) = Vec4(Zero, Zero, One, One)

\* mat4rotx has returned the matrix of the quarter turn
C5_Witness ==
    /\ pc = "returned"
    /\ op = "mat4rotx"
    /\ args = <<QuarterTurn>>
    /\ result[6] = One

\* C6: mat4rotx, mat4roty and mat4rotz hold the right-hand-rule rotation about
\* their axis in the upper-left 3x3 block (rotx columns (1,0,0),(0,c,s),(0,-s,c);
\* roty columns (c,0,-s),(0,1,0),(s,0,c); rotz columns (c,s,0),(-s,c,0),(0,0,1))
\* and the identity's entries everywhere else.
C6_RotationBlocks ==
    op \in {"mat4rotx", "mat4roty", "mat4rotz"} =>
        LET c == FCos(args[1])
            s == FSin(args[1])
        IN  /\ RestIsIdentity(result)
            /\ op = "mat4rotx" =>
                  /\ Column3(result, 0) = <<One, Zero, Zero>>
                  /\ Column3(result, 1) = <<Zero, c, s>>
                  /\ Column3(result, 2) = <<Zero, FNeg(s), c>>
            /\ op = "mat4roty" =>
                  /\ Column3(result, 0) = <<c, Zero, FNeg(s)>>
                  /\ Column3(result, 1) = <<Zero, One, Zero>>
                  /\ Column3(result, 2) = <<s, Zero, c>>
            /\ op = "mat4rotz" =>
                  /\ Column3(result, 0) = <<c, s, Zero>>
                  /\ Column3(result, 1) = <<FNeg(s), c, Zero>>
                  /\ Column3(result, 2) = <<Zero, Zero, One>>

\* mat4roty has returned the rotation with cos = 3/5 and sin = -4/5
C6_Witness ==
    /\ pc = "returned"
    /\ op = "mat4roty"
    /\ args = <<Float(-1, 2)>>
    /\ result[0] = Float(3, 5)
    /\ result[8] = Float(-4, 5)

---------------------------------------------------------------------------
(* translation and scale                                                   *)

\* C7: mat4translate(x, y, z) is the identity except for indices 12, 13, 14,
\* which hold x, y, z; it maps the point (0,0,0,1) to (x,y,z,1).
C7_Translate ==
    op = "mat4translate" =>
        /\ \A i \in 0..15 :
              result[i] = IF i \in {12, 13, 14} THEN args[i - 11] ELSE mat4identity[i]
        /\ mat4apply(result, Vec4(Zero, Zero, Zero, One))
              = Vec4(args[1], args[2], args[3], One)

\* mat4translate has returned for three different offsets
C7_Witness ==
    /\ pc = "returned"
    /\ op = "mat4translate"
    /\ args = <<Float(1, 2), Float(-2, 1), One>>
    /\ result[13] = Float(-2, 1)

\* C8: mat4scale(s) has s at indices 0, 5, 10, 1 at index 15 and 0 everywhere
\* else; it maps (1,1,1,1) to (s,s,s,1).
C8_Scale ==
    op = "mat4scale" =>
        /\ \A i \in 0..15 :
              result[i] = IF i \in {0, 5, 10} THEN args[1]
                          ELSE IF i = 15 THEN One ELSE Zero
        /\ mat4apply(result, Vec4(One, One, One, One))
              = Vec4(args[1], args[1], args[1], One)

\* mat4scale has returned for the factor 0.5 of main
C8_Witness ==
    /\ pc = "returned"
    /\ op = "mat4scale"
    /\ args = <<Float(1, 2)>>
    /\ result[10] = Float(1, 2)

---------------------------------------------------------------------------
(* perspective                                                             *)

\* f < g, for finite f and g
FLess(f, g) == f[1] * g[2] < g[1] * f[2]

\* C9: for positive near < far, mat4perspective returns a matrix with -1 at
\* index 11, -(far+near)/(far-near) at index 10 and 0 at index 15, so that the
\* clip-space w of every view-space point (x,y,z,1) is -z.
C9_PerspectiveEntries ==
    (op = "mat4perspective" /\ FLess(Zero, args[3]) /\ FLess(args[3], args[4])) =>
        /\ result[11] = MinusOne
        /\ IsFinite(result[10])
        /\ FMul(result[10], FSub(args[4], args[3])) = FNeg(FAdd(args[4], args[3]))
        /\ result[15] = Zero
        /\ \A v \in VecPool :
              v[4] = One => mat4apply(result, v)[4] = FNeg(v[3])

\* mat4perspective(pi/2, 1, 0.1, 100) has returned, with -100.1/99.9 at index 10
C9_Witness ==
    /\ pc = "returned"
    /\ op = "mat4perspective"
    /\ args = <<QuarterTurn, One, Float(1, 10), Float(100, 1)>>
    /\ result[10] = Float(-1001, 999)
    /\ result[11] = MinusOne

\* C10: mat4perspective validates nothing and has no error outcome: for any
\* arguments it returns a 16-element matrix; when near = far the two entries
\* divided by (far - near), indices 10 and 14, are undefined (not finite) and
\* the other 14 entries are the values the function defines for them: f/aspect
\* at 0, f = 1/tan(vfov/2) at 5, -1 at 11 and 0 elsewhere.
C10_PerspectiveNoValidation ==
    /\ pc = "idle" =>
          /\ ENABLED CallPerspective
          /\ \A vfov \in Angles, aspect \in Scalars, znear \in Depths, zfar \in Depths :
                mat4perspective(vfov, aspect, znear, zfar) # {}
    /\ op = "mat4perspective" =>
          /\ pc = "returned"
          /\ DOMAIN result = 0..15
          /\ args[3] = args[4] =>
                /\ result[10] \in NonFinite
                /\ result[14] \in NonFinite
                /\ \A i \in {1, 2, 3, 4, 6, 7, 8, 9, 12, 13, 15} : result[i] = Zero
                /\ result[11] = MinusOne
                /\ result[5] \in FDiv(One, FTanHalf(args[1]))
                /\ result[0] \in FDiv(result[5], args[2])
                /\ (FTanHalf(args[1]) # Zero /\ args[2] # Zero) =>
                      /\ IsFinite(result[5])
                      /\ FMul(result[5], FTanHalf(args[1])) = One
                      /\ IsFinite(result[0])
                      /\ FMul(result[0], args[2]) = result[5]

\* mat4perspective has returned for near = far = 1
C10_Witness ==
    /\ pc = "returned"
    /\ op = "mat4perspective"
    /\ args = <<QuarterTurn, Two, One, One>>
    /\ result[0] = Float(1, 2)
    /\ result[5] = One
    /\ ~IsFinite(result[10])
    /\ ~IsFinite(result[14])

---------------------------------------------------------------------------
(* main                                                                    *)

\* the place of a phase in the order window, GL, shader, buffers, loop, teardown
ShaderFirstRank(phase) ==
    CASE phase = "window"   -> 1
      [] phase = "gl"       -> 2
      [] phase = "shader"   -> 3
      [] phase = "buffers"  -> 4
      [] phase = "shape"    -> 5
      [] phase = "frame"    -> 6
      [] phase = "teardown" -> 7

\* the place of a phase in the order window, GL, buffers, shader, loop, teardown
BuffersFirstRank(phase) ==
    CASE phase = "window"   -> 1
      [] phase = "gl"       -> 2
      [] phase = "buffers"  -> 3
      [] phase = "shader"   -> 4
      [] phase = "shape"    -> 5
      [] phase = "frame"    -> 6
      [] phase = "teardown" -> 7

\* the phases so far came in the order of Rank, each once but for the frames
InOrder(Rank(_)) ==
    \A i \in 1..Len(log), j \in 1..Len(log) :
        i < j => \/ Rank(log[i]) < Rank(log[j])
                 \/ log[i] = "frame" /\ log[j] = "frame"

\* no frame is drawn before the shader, the buffers and the shape are there
LoopAfterSetup ==
    (frames > 0 \/ mainpc \in {"frameBuild", "frameDraw", "framePoll"}) =>
        shaderLoaded /\ buffersBuilt /\ shapeBuilt /\ glReady /\ window

\* buffers are deleted, the window destroyed and GLFW terminated at the end
\* only after the loop has been left
TeardownAfterLoop ==
    /\ (buffersDeleted \/ windowDestroyed \/ mainpc = "teardown") => loopExited
    /\ loopExited => shouldClose /\ frames > 0
    /\ (terminated /\ exitCode # "-1") => loopExited /\ buffersDeleted /\ windowDestroyed
    /\ exitCode = "0" <=> (mainpc = "exit" /\ loopExited)

\* without a window or without GL: a message, exit code -1, no later phase
FailureExits ==
    /\ (mainpc = "exit" /\ ~glReady) =>
          /\ exitCode = "-1"
          /\ terminated
          /\ Len(output) = 1
          /\ ~window => output[1] = "Unable to open window. Terminating."
          /\ window => output[1] = "Error: glewInit"
    /\ exitCode = "-1" =>
          /\ mainpc = "exit"
          /\ ~glReady
          /\ ~buffersBuilt /\ ~shaderLoaded /\ ~shapeBuilt /\ frames = 0
          /\ ~loopExited /\ ~buffersDeleted /\ ~windowDestroyed
          /\ ~ENABLED NextMain

\* C11 as stated: in every execution of main the phases come in the order
\* init window, init GL, load shader, build buffers, render loop, teardown:
\* the shader is loaded before the vertex/color/index buffers are built, no
\* frame before both, teardown only after the loop, and a failed window or
\* GL initialisation prints an error and exits with -1.
C11_ShaderBeforeBuffers ==
    /\ InOrder(ShaderFirstRank)
    /\ buffersBuilt => shaderLoaded
    /\ LoopAfterSetup
    /\ TeardownAfterLoop
    /\ FailureExits

\* C11 (amended): in every execution of main the phases come in the order
\* init window, init GL, build buffers, load shader, render loop, teardown:
\* the vertex/color/index buffers are built before the shader is loaded, no
\* frame before both, teardown only after the loop, and a failed window or
\* GL initialisation prints an error and exits with -1.
C11_PhaseOrder ==
    /\ InOrder(BuffersFirstRank)
    /\ shaderLoaded => buffersBuilt
    /\ LoopAfterSetup
    /\ TeardownAfterLoop
    /\ FailureExits

\* main has run to its end through two frames and the teardown
C11_Witness ==
    /\ mainpc = "exit"
    /\ exitCode = "0"
    /\ frames = 2
    /\ log = <<"window", "gl", "buffers", "shader", "shape", "frame", "frame", "teardown">>
    /\ uniforms.MV = mat4rotx(QuarterTurn)

=============================================================================
